---------------------------- MODULE Spec2Model ----------------------------
(***************************************************************************)
(* Model of src/app.py: the MDX query builder build_mdx_query, the result *)
(* normalizer inside execute_mdx, and the endpoints that call them.        *)
(*                                                                         *)
(* Query text is a sequence of tokens (strings).  Every f-string of the    *)
(* source becomes the concatenation of its literal pieces and of its       *)
(* interpolated values, one token each; str.replace and str.startswith     *)
(* act on tokens.  Interpolated names are drawn from sets of cube          *)
(* identifiers, none of which is itself one of the literal pieces.         *)
(* Python's None is the token "None", which is also how an f-string        *)
(* prints it.                                                              *)
(***************************************************************************)
EXTENDS Integers, Sequences, FiniteSets, TLC

VARIABLES
    pc,        \* position of the modelled call
    req,       \* arguments of build_mdx_query
    built,     \* locals of build_mdx_query at its return, and its result
    payload,   \* JSON body of an endpoint request
    endpoint,  \* the endpoint that received payload
    response,  \* the endpoint's JSON response
    df,        \* the DataFrame of execute_mdx: columns and indexed rows
    cow,       \* pandas build: chained assignment writes to a copy
    result,    \* value returned by execute_mdx
    executed,  \* the calls of execute_mdx: the query handed over, and
               \* whether the engine ran it
    con,       \* execute_mdx step by step: each call's local con, the
               \* session it opened (0: none)
    sessions   \* execute_mdx step by step: the sessions opened so far

vars == <<pc, req, built, payload, endpoint, response, df, cow, result, executed, con, sessions>>

----------------------------------------------------------------------------
(* Bounds *)

MaxDims == 2         \* dimension references over both axes of one request
MaxVisible == 2      \* members of a visibility list
MaxMeasures == 2     \* measures of one request
MaxFilters == 2      \* filters of one request
MaxRows == 3         \* rows of a raw table
MaxCalls == 2        \* calls of execute_mdx in progress at a time

----------------------------------------------------------------------------
(* Python values *)

None == "None"
Unbound == "<unbound>"

\* truth value of a string-or-None
Truthy(x) == x # None /\ x # ""

RECURSIVE SeqsUpTo(_, _)
SeqsUpTo(S, n) ==
    IF n = 0 THEN {<<>>}
    ELSE LET shorter == SeqsUpTo(S, n - 1)
         IN  shorter \cup {Append(s, x) : s \in {t \in shorter : Len(t) = n - 1}, x \in S}

\* sep.join(texts), texts a sequence of token sequences
RECURSIVE Join(_, _)
Join(texts, sep) ==
    IF Len(texts) = 0 THEN <<>>
    ELSE IF Len(texts) = 1 THEN texts[1]
    ELSE texts[1] \o <<sep>> \o Join(Tail(texts), sep)

\* text.replace(tok, repl): every occurrence of the token, left to right
RECURSIVE Replace(_, _, _)
Replace(text, tok, repl) ==
    IF Len(text) = 0 THEN <<>>
    ELSE (IF Head(text) = tok THEN repl ELSE <<Head(text)>>)
         \o Replace(Tail(text), tok, repl)

\* text.startswith("NON EMPTY")
StartsWithNonEmpty(text) == Len(text) > 0 /\ Head(text) = "NON EMPTY "

\* str.upper() on the sort directions
Upper(s) ==
    CASE s = "asc" -> "ASC"
      [] s = "desc" -> "DESC"
      [] OTHER -> s

\* str(n) for the top-N count
Str(n) == ToString(n)

----------------------------------------------------------------------------
(* MDX fragments of build_mdx_query *)

MembersExpr(d, l) == <<"[", d, "].[", l, "].MEMBERS">>
PinnedExpr(d, l, m) == <<"[", d, "].[", l, "].&[", m, "]">>
ChildrenExpr(d, l, m) == PinnedExpr(d, l, m) \o <<".CHILDREN">>
ParentExpr(d, l, m) == PinnedExpr(d, l, m) \o <<".PARENT">>

MeasureExpr(m) == <<"[Measures].[", m, "]">>

MeasuresSet(measures) ==
    <<"{">> \o Join([i \in 1..Len(measures) |-> MeasureExpr(measures[i])], ", ") \o <<"}">>

\* the drill branch shared by both axis loops
DrillExpr(dim_name, level, drill_info) ==
    LET member == drill_info.member
        drill_type == drill_info.type
    IN  IF drill_type = "down" /\ Truthy(member) THEN ChildrenExpr(dim_name, level, member)
        ELSE IF drill_type = "up" /\ Truthy(member) THEN ParentExpr(dim_name, level, member)
        ELSE IF drill_type = "through" THEN MembersExpr(dim_name, level)
        ELSE MembersExpr(dim_name, level)

\* one iteration of the column loop: drill first, then the pinned member
ResolveCol(dim, drill_info) ==
    IF drill_info.given /\ drill_info.dimension = dim.dimension
    THEN DrillExpr(dim.dimension, dim.level, drill_info)
    ELSE IF Truthy(dim.member) THEN PinnedExpr(dim.dimension, dim.level, dim.member)
    ELSE MembersExpr(dim.dimension, dim.level)

\* one iteration of the row loop: the pinned member first, then drill
ResolveRow(dim, drill_info) ==
    IF Truthy(dim.member) THEN PinnedExpr(dim.dimension, dim.level, dim.member)
    ELSE IF drill_info.given /\ drill_info.dimension = dim.dimension
    THEN DrillExpr(dim.dimension, dim.level, drill_info)
    ELSE MembersExpr(dim.dimension, dim.level)

\* the loops: st holds dimension_members and the loop variables dim_name and
\* level, which stay bound after the loop and across the two loops
RECURSIVE ColsLoop(_, _, _)
ColsLoop(dims, drill_info, st) ==
    IF Len(dims) = 0 THEN st
    ELSE LET dim == Head(dims)
             nxt == IF dim.isdict
                    THEN [members |-> Append(st.members, ResolveCol(dim, drill_info)),
                          dim_name |-> dim.dimension, level |-> dim.level]
                    ELSE st
         IN  ColsLoop(Tail(dims), drill_info, nxt)

RECURSIVE RowsLoop(_, _, _)
RowsLoop(dims, drill_info, st) ==
    IF Len(dims) = 0 THEN st
    ELSE LET dim == Head(dims)
             nxt == IF dim.isdict
                    THEN [members |-> Append(st.members, ResolveRow(dim, drill_info)),
                          dim_name |-> dim.dimension, level |-> dim.level]
                    ELSE st
         IN  RowsLoop(Tail(dims), drill_info, nxt)

\* "if show_hide and show_hide.get('type') == axis" with a non-empty list
ShowHideApplies(show_hide, axis) ==
    show_hide.given /\ show_hide.type = axis /\ Len(show_hide.members) > 0

\* the visibility list added to the resolved expressions instead of replacing them
VisibleExprsAugment(st, show_hide) ==
    st.members \o [i \in 1..Len(show_hide.members) |->
                      PinnedExpr(st.dim_name, st.level, show_hide.members[i])]

VisibleExprs(st, show_hide) ==
    [i \in 1..Len(show_hide.members) |->
        PinnedExpr(st.dim_name, st.level, show_hide.members[i])]


NoLoopVars == [members |-> <<>>, dim_name |-> Unbound, level |-> Unbound]

\* the column axis crossjoined with the measures but not filtered
ColsPartUnfiltered(r) ==
    IF Len(r.cols) > 0
    THEN LET st == ColsLoop(r.cols, r.drill_info, NoLoopVars)
             applies == ShowHideApplies(r.show_hide, "columns")
             members == IF applies /\ st.dim_name # Unbound
                        THEN VisibleExprs(st, r.show_hide) ELSE st.members
             measures_set == MeasuresSet(r.measures)
             cols_str ==
                 IF Len(members) > 0
                 THEN IF Len(members) = 1
                      THEN <<"CROSSJOIN(">> \o measures_set \o <<", ">>
                           \o members[1] \o <<")">>
                      ELSE <<"CROSSJOIN(">> \o measures_set \o <<", ">>
                           \o <<"CROSSJOIN(">> \o Join(members, ", ") \o <<")">> \o <<")">>
                 ELSE measures_set
         IN  [raise |-> applies /\ st.dim_name = Unbound, st |-> st,
              members |-> members, str |-> cols_str]
    ELSE [raise |-> FALSE, st |-> NoLoopVars, members |-> <<>>,
          str |-> MeasuresSet(r.measures)]

\* COLUMNS part: the loop, show/hide, and the crossjoin with the measures.
\* raise: the list comprehension reads dim_name before any dict was seen
ColsPart(r) ==
    IF Len(r.cols) > 0
    THEN LET st == ColsLoop(r.cols, r.drill_info, NoLoopVars)
             applies == ShowHideApplies(r.show_hide, "columns")
             members == IF applies /\ st.dim_name # Unbound
                        THEN VisibleExprs(st, r.show_hide) ELSE st.members
             measures_set == MeasuresSet(r.measures)
             cols_str ==
                 IF Len(members) > 0
                 THEN IF Len(members) = 1
                      THEN <<"NON EMPTY ", "CROSSJOIN(">> \o measures_set \o <<", ">>
                           \o members[1] \o <<")">>
                      ELSE <<"NON EMPTY ", "CROSSJOIN(">> \o measures_set \o <<", ">>
                           \o <<"CROSSJOIN(">> \o Join(members, ", ") \o <<")">> \o <<")">>
                 ELSE measures_set
         IN  [raise |-> applies /\ st.dim_name = Unbound, st |-> st,
              members |-> members, str |-> cols_str]
    ELSE [raise |-> FALSE, st |-> NoLoopVars, members |-> <<>>,
          str |-> MeasuresSet(r.measures)]

\* a single member left without the filter
RowsBaseBare(members) ==
    IF Len(members) = 1
    THEN <<"{">> \o members[1] \o <<"}">>
    ELSE <<"NON EMPTY ", "{", "CROSSJOIN(">> \o Join(members, ", ") \o <<")", "}">>

\* the row axis before sorting: NON EMPTY around the member or the crossjoin
RowsBase(members) ==
    IF Len(members) = 1
    THEN <<"NON EMPTY ", "{">> \o members[1] \o <<"}">>
    ELSE <<"NON EMPTY ", "{", "CROSSJOIN(">> \o Join(members, ", ") \o <<")", "}">>

\* the composition the source comment calls the old problematic code: ORDER
\* around the filtered set
SortRowsFilterFirst(rows_str, sort_info) ==
    IF sort_info.given /\ Truthy(sort_info.measure)
    THEN LET sort_direction == IF sort_info.direction = None THEN "desc"
                               ELSE sort_info.direction
         IN  <<"ORDER(">> \o rows_str \o <<", ">> \o MeasureExpr(sort_info.measure)
             \o <<", ", Upper(sort_direction), ")">>
    ELSE rows_str

\* "Handle sorting"
SortRows(rows_str, sort_info) ==
    IF sort_info.given /\ Truthy(sort_info.measure)
    THEN LET sort_direction == IF sort_info.direction = None THEN "desc"
                               ELSE sort_info.direction
             key == <<", ">> \o MeasureExpr(sort_info.measure)
                    \o <<", ", Upper(sort_direction), ")">>
         IN  IF StartsWithNonEmpty(rows_str)
             THEN <<"NON EMPTY ", "ORDER(">> \o Replace(rows_str, "NON EMPTY ", <<>>) \o key
             ELSE <<"ORDER(">> \o rows_str \o key
    ELSE rows_str

\* "Handle Top N"
TopNRows(rows_str, top_n) ==
    IF top_n.given /\ Truthy(top_n.measure)
    THEN LET n == IF top_n.has_n THEN top_n.n ELSE 10
         IN  <<"TOPCOUNT(">> \o rows_str \o <<", ", Str(n), ", ">>
             \o MeasureExpr(top_n.measure) \o <<")">>
    ELSE rows_str

\* the ROWS part with the limit applied before the ordering
RowsPartTopFirst(r, st0) ==
    IF Len(r.rows) > 0
    THEN LET st == RowsLoop(r.rows, r.drill_info,
                            [members |-> <<>>, dim_name |-> st0.dim_name,
                             level |-> st0.level])
             applies == ShowHideApplies(r.show_hide, "rows")
             members == IF applies /\ st.dim_name # Unbound
                        THEN VisibleExprs(st, r.show_hide) ELSE st.members
             base == RowsBase(members)
         IN  [raise |-> applies /\ st.dim_name = Unbound, members |-> members,
              base |-> base,
              str |-> SortRows(TopNRows(base, r.top_n), r.sort_info)]
    ELSE [raise |-> FALSE, members |-> <<>>, base |-> <<"{[Measures].MEMBERS}">>,
          str |-> <<"{[Measures].MEMBERS}">>]

\* ROWS part; st0 is what the column part left in dim_name and level
RowsPart(r, st0) ==
    IF Len(r.rows) > 0
    THEN LET st == RowsLoop(r.rows, r.drill_info,
                            [members |-> <<>>, dim_name |-> st0.dim_name,
                             level |-> st0.level])
             applies == ShowHideApplies(r.show_hide, "rows")
             members == IF applies /\ st.dim_name # Unbound
                        THEN VisibleExprs(st, r.show_hide) ELSE st.members
             base == RowsBase(members)
         IN  [raise |-> applies /\ st.dim_name = Unbound, members |-> members,
              base |-> base,
              str |-> TopNRows(SortRows(base, r.sort_info), r.top_n)]
    ELSE [raise |-> FALSE, members |-> <<>>, base |-> <<"{[Measures].MEMBERS}">>,
          str |-> <<"{[Measures].MEMBERS}">>]

\* a between filter compiled from whatever bounds it has
FilterItemsCoerce(f) ==
    LET cur == <<"[", f.dimension, "].[", f.level, "].CURRENTMEMBER">>
    IN  IF Truthy(f.dimension) /\ Truthy(f.level) /\ Truthy(f.value)
        THEN IF f.type = "between"
             THEN <<<<"FILTER(">> \o MembersExpr(f.dimension, f.level) \o <<", ">> \o cur
                    \o <<" >= ", f.min_value, " AND ">> \o cur
                    \o <<" <= ", f.max_value, ")">>>>
             ELSE <<PinnedExpr(f.dimension, f.level, f.value)>>
        ELSE <<>>

\* the fragments one filter appends to filter_items: none or one
FilterItems(f) ==
    LET dim == f.dimension
        level == f.level
        value == f.value
        filter_type == IF f.type = None THEN "equals" ELSE f.type
        set == <<"FILTER(">> \o MembersExpr(dim, level) \o <<", ">>
        cur == <<"[", dim, "].[", level, "].CURRENTMEMBER">>
        caption(fn) == <<<<fn>> \o <<"[", dim, "].[", level, "].CURRENTMEMBER.MEMBER_CAPTION">>
                         \o <<", '", value, "'))">>>>
    IN  IF Truthy(dim) /\ Truthy(level) /\ Truthy(value)
        THEN CASE filter_type = "equals" -> <<PinnedExpr(dim, level, value)>>
               [] filter_type = "contains" -> <<set \o caption("CONTAINS(")[1]>>
               [] filter_type = "starts_with" -> <<set \o caption("STARTSWITH(")[1]>>
               [] filter_type = "ends_with" -> <<set \o caption("ENDSWITH(")[1]>>
               [] filter_type = "greater_than" -> <<set \o cur \o <<" > ", value, ")">>>>
               [] filter_type = "less_than" -> <<set \o cur \o <<" < ", value, ")">>>>
               [] filter_type = "between" ->
                    IF Truthy(f.min_value) /\ Truthy(f.max_value)
                    THEN <<set \o cur \o <<" >= ", f.min_value, " AND ">> \o cur
                           \o <<" <= ", f.max_value, ")">>>>
                    ELSE <<>>
               [] OTHER -> <<>>
        ELSE <<>>

RECURSIVE FilterLoop(_)
FilterLoop(filters) ==
    IF Len(filters) = 0 THEN <<>>
    ELSE FilterItems(Head(filters)) \o FilterLoop(Tail(filters))

\* "Build WHERE clause with advanced filtering"
WhereClause(filters) ==
    LET filter_items == FilterLoop(filters)
    IN  IF Len(filters) > 0 /\ Len(filter_items) > 0
        THEN <<" WHERE (">> \o Join(filter_items, ", ") \o <<")">>
        ELSE <<>>

\* the hint taking the place of the filters instead of joining them
AggregationWhereReplace(where_clause, aggregation_level) ==
    IF aggregation_level.given /\ Truthy(aggregation_level.dimension)
       /\ Truthy(aggregation_level.level)
    THEN <<" WHERE (">>
         \o MembersExpr(aggregation_level.dimension, aggregation_level.level) \o <<")">>
    ELSE where_clause

\* "Handle aggregation levels for time-based aggregations"
AggregationWhere(where_clause, aggregation_level) ==
    IF aggregation_level.given /\ Truthy(aggregation_level.dimension)
       /\ Truthy(aggregation_level.level)
    THEN LET agg_where == MembersExpr(aggregation_level.dimension, aggregation_level.level)
         IN  IF Len(where_clause) > 0
             THEN Replace(where_clause, " WHERE (", <<" WHERE (">> \o agg_where \o <<", ">>)
             ELSE <<" WHERE (">> \o agg_where \o <<")">>
    ELSE where_clause

\* the template of the final query
QueryText(cols_str, rows_str, where_clause) ==
    <<"SELECT ">> \o cols_str \o <<" ON COLUMNS, ">> \o rows_str
    \o <<" ON ROWS FROM [DW]">> \o where_clause

NoText == <<>>

\* build_mdx_query: kind is "none" (returns None), "raise" (NameError) or
\* "text"; the other fields are the locals the text is assembled from
BuildMdxQuery(r) ==
    LET blank == [kind |-> "none", mdx |-> NoText, cols_str |-> NoText,
                  rows_str |-> NoText, rows_base |-> NoText, where_clause |-> NoText,
                  filter_where |-> NoText, filter_items |-> <<>>,
                  col_members |-> <<>>, row_members |-> <<>>]
    IN  IF Len(r.rows) = 0 /\ Len(r.cols) = 0 THEN blank
        ELSE LET c == ColsPart(r)
                 w == RowsPart(r, c.st)
                 fw == WhereClause(r.filters)
                 where_clause == AggregationWhere(fw, r.aggregation_level)
             IN  IF c.raise \/ w.raise THEN [blank EXCEPT !.kind = "raise"]
                 ELSE [kind |-> "text",
                       mdx |-> QueryText(c.str, w.str, where_clause),
                       cols_str |-> c.str, rows_str |-> w.str, rows_base |-> w.base,
                       where_clause |-> where_clause, filter_where |-> fw,
                       filter_items |-> FilterLoop(r.filters),
                       col_members |-> c.members, row_members |-> w.members]

----------------------------------------------------------------------------
(* The result normalizer of execute_mdx *)

\* column identifiers of the modelled cube; '[Measures]' in col and
\* col.endswith('.[MEMBER_CAPTION]') are decided on these identifiers
MeasureCol == "[Measures].[Total Item Price]"
CaptionCol1 == "[Dim Item].[Item ID].[MEMBER_CAPTION]"
CaptionCol2 == "[Dim Store].[City ID].[MEMBER_CAPTION]"
OtherCol == "[Dim Item].[Item ID].[MEMBER_UNIQUE_NAME]"

IsMeasureCol(col) == col = MeasureCol
IsCaptionCol(col) == col \in {CaptionCol1, CaptionCol2}

\* pd.DataFrame(rows, columns=columns): rows labelled 0, 1, ...
DataFrame(columns, rows) ==
    [columns |-> columns,
     rows |-> [i \in 1..Len(rows) |-> [idx |-> i - 1, vals |-> rows[i]]]]

\* df[col].fillna(0)
FillNa(x) == IF x = None THEN "0" ELSE x

\* the placeholder left as it is
RelabelUnknownKeep(x) == x

\* the lambda of df[col].apply
RelabelUnknown(x) == IF x = "Unknown" THEN "Total" ELSE x

\* the body of "for col in df.columns" for one column; iloc[0] of an empty
\* column raises IndexError.  With copy-on-write the chained assignment
\* df[col].iloc[0] = 'Total' writes to a temporary and df keeps its value
NormalizeColumn(d, col, copy_on_write) ==
    IF IsMeasureCol(col)
    THEN [raise |-> FALSE,
          df |-> [d EXCEPT !.rows = [i \in 1..Len(d.rows) |->
                     [d.rows[i] EXCEPT !.vals[col] = FillNa(@)]]]]
    ELSE IF IsCaptionCol(col) /\ Len(d.rows) = 0
    THEN [raise |-> TRUE, df |-> d]
    ELSE LET first_total == IsCaptionCol(col) /\ d.rows[1].vals[col] = None
                            /\ ~copy_on_write
             labelled(i) == IF i = 1 /\ first_total THEN "Total"
                            ELSE d.rows[i].vals[col]
         IN  [raise |-> FALSE,
              df |-> [d EXCEPT !.rows = [i \in 1..Len(d.rows) |->
                         [d.rows[i] EXCEPT !.vals[col] = RelabelUnknown(labelled(i))]]]]

RECURSIVE NormalizeColumns(_, _, _)
NormalizeColumns(d, cols, copy_on_write) ==
    IF Len(cols) = 0 THEN [raise |-> FALSE, df |-> d]
    ELSE LET one == NormalizeColumn(d, Head(cols), copy_on_write)
         IN  IF one.raise THEN one
             ELSE NormalizeColumns(one.df, Tail(cols), copy_on_write)

\* unknown_mask of one row
UnknownMask(d, row) ==
    \A i \in 1..Len(d.columns) :
        ~IsMeasureCol(d.columns[i]) => row.vals[d.columns[i]] = "Unknown"

\* rows whose dimension values are all the relabelled placeholder dropped
\* without looking at what is left
SuppressRowsUnguarded(d) ==
    LET total(row) == \A i \in 1..Len(d.columns) :
                         ~IsMeasureCol(d.columns[i]) => row.vals[d.columns[i]] = "Total"
    IN  [d EXCEPT !.rows = SelectSeq(d.rows, LAMBDA row : ~total(row))]

\* "Filter out rows where all dimension columns have Unknown values"
SuppressRows(d) ==
    IF Len(d.rows) > 1
       /\ (\E i \in 1..Len(d.columns) : ~IsMeasureCol(d.columns[i]))
       /\ (\E i \in 1..Len(d.rows) : ~UnknownMask(d, d.rows[i]))
    THEN [d EXCEPT !.rows = SelectSeq(d.rows, LAMBDA row : ~UnknownMask(d, row))]
    ELSE d

\* df.to_dict('records')
ToRecords(d) == [i \in 1..Len(d.rows) |-> d.rows[i].vals]

\* the normalizer: lines 154-183, or the except branch when it raises
Normalize(columns, rows, copy_on_write) ==
    LET filled == NormalizeColumns(DataFrame(columns, rows), columns, copy_on_write)
        kept == SuppressRows(filled.df)
    IN  IF filled.raise
        THEN [kind |-> "error", df |-> filled.df, columns |-> columns, rows |-> <<>>]
        ELSE [kind |-> "rows", df |-> kept, columns |-> columns, rows |-> ToRecords(kept)]

----------------------------------------------------------------------------
(* Input domains *)

DefaultMeasure == "Total Item Price"
MeasureNames == {"Total Item Price", "Quantity Sale"}

NotDict == [isdict |-> FALSE, dimension |-> None, level |-> None, member |-> None]
StoreRef == [isdict |-> TRUE, dimension |-> "Dim Store", level |-> "City ID", member |-> None]
StorePinned == [StoreRef EXCEPT !.member = "5"]
TimeRef == [isdict |-> TRUE, dimension |-> "Dim Time", level |-> "Year", member |-> None]

DimEntries == {StoreRef, StorePinned, TimeRef, NotDict}

\* the row and column lists of one request: n entries at most over both
AxisPairs(n) ==
    UNION {SeqsUpTo(DimEntries, k) \X SeqsUpTo(DimEntries, n - k) : k \in 0..n}

NoDrill == [given |-> FALSE, dimension |-> None, member |-> None, type |-> None]
DrillInfos ==
    {NoDrill} \cup
    {[given |-> TRUE, dimension |-> "Dim Store", member |-> m, type |-> t] :
        m \in {None, "5"}, t \in {"down", "up", "through"}}

\* the drill specs combined with the other modifiers
AxisDrills ==
    {NoDrill,
     [given |-> TRUE, dimension |-> "Dim Store", member |-> "5", type |-> "down"],
     [given |-> TRUE, dimension |-> "Dim Store", member |-> None, type |-> "through"]}

NoSort == [given |-> FALSE, measure |-> None, direction |-> None]
SortInfos ==
    {NoSort,
     [given |-> TRUE, measure |-> None, direction |-> "asc"],
     [given |-> TRUE, measure |-> "Quantity Sale", direction |-> "asc"],
     [given |-> TRUE, measure |-> "Quantity Sale", direction |-> None]}

NoTopN == [given |-> FALSE, measure |-> None, has_n |-> FALSE, n |-> 0]
TopNs ==
    {NoTopN,
     [given |-> TRUE, measure |-> None, has_n |-> TRUE, n |-> 3],
     [given |-> TRUE, measure |-> "Quantity Sale", has_n |-> TRUE, n |-> 3],
     [given |-> TRUE, measure |-> "Total Item Price", has_n |-> FALSE, n |-> 0]}

\* visibility lists are ordered sets: no member twice
VisibleLists ==
    {ms \in SeqsUpTo({"5", "8"}, MaxVisible) :
        \A i, j \in 1..Len(ms) : i < j => ms[i] # ms[j]}

NoShowHide == [given |-> FALSE, type |-> None, members |-> <<>>]
ShowHides ==
    {NoShowHide} \cup
    {[given |-> TRUE, type |-> t, members |-> ms] :
        t \in {"rows", "columns"}, ms \in VisibleLists}

NoAggregation == [given |-> FALSE, dimension |-> None, level |-> None]
Aggregations ==
    {NoAggregation,
     [given |-> TRUE, dimension |-> "Dim Time", level |-> "Quarter"],
     [given |-> TRUE, dimension |-> "Dim Time", level |-> None]}

FilterTypes ==
    {"equals", "contains", "starts_with", "ends_with", "greater_than", "less_than",
     "between"}

\* filters on [Dim Time].[Year]; min_value and max_value are only given with
\* type between; "regex" is a type the builder does not know
Filters ==
    {[dimension |-> "Dim Time", level |-> "Year", type |-> t, value |-> v,
      min_value |-> None, max_value |-> None] :
        t \in (FilterTypes \ {"between"}) \cup {None, "regex"}, v \in {None, "2023"}}
    \cup
    {[dimension |-> "Dim Time", level |-> "Year", type |-> "between", value |-> v,
      min_value |-> lo, max_value |-> hi] :
        v \in {None, "2023"}, lo \in {None, "2022"}, hi \in {None, "2023"}}

Request(rows, cols, measures, filters, drill_info, sort_info, top_n, show_hide, aggregation_level) ==
    [rows |-> rows, cols |-> cols, measures |-> measures, filters |-> filters,
     drill_info |-> drill_info, sort_info |-> sort_info, top_n |-> top_n,
     show_hide |-> show_hide, aggregation_level |-> aggregation_level]

NoRequest == Request(<<>>, <<>>, <<>>, <<>>, NoDrill, NoSort, NoTopN, NoShowHide,
                     NoAggregation)

\* raw tables: column layouts and the values a cell can hold
Layouts ==
    {<<MeasureCol>>, <<MeasureCol, CaptionCol1>>, <<CaptionCol1, MeasureCol>>,
     <<MeasureCol, OtherCol>>, <<MeasureCol, CaptionCol1, CaptionCol2>>}

CellValues(col) ==
    IF IsMeasureCol(col) THEN {None, "120"}
    ELSE IF col = CaptionCol2 THEN {"Unknown", "B"}
    ELSE {None, "Unknown", "A"}

RowsOf(columns) ==
    {row \in [{columns[i] : i \in 1..Len(columns)} ->
                 {None, "120", "Unknown", "A", "B"}] :
        \A i \in 1..Len(columns) : row[columns[i]] \in CellValues(columns[i])}

RawTables(n) ==
    UNION {{[columns |-> columns, rows |-> rows] :
               rows \in SeqsUpTo(RowsOf(columns), n)} : columns \in Layouts}

NoTable == [columns |-> <<>>, rows |-> <<>>]
NoResult == [kind |-> "none", df |-> DataFrame(<<>>, <<>>), columns |-> <<>>,
             rows |-> <<>>]
NoBuilt == [BuildMdxQuery(NoRequest) EXCEPT !.kind = "pending"]
NoPayload == [given |-> FALSE]
NoResponse == [given |-> FALSE]

----------------------------------------------------------------------------
(* build_mdx_query applied to a request *)

\* axes, drill, visibility, sort and top-N; one measure, no filter
InitAxis ==
    /\ pc = "args"
    /\ \E p \in AxisPairs(MaxDims), d \in AxisDrills, s \in SortInfos, t \in TopNs,
          v \in ShowHides :
          req = Request(p[1], p[2], <<DefaultMeasure>>, <<>>, d, s, t, v, NoAggregation)
    /\ built = NoBuilt
    /\ payload = NoPayload
    /\ endpoint = "none"
    /\ response = NoResponse
    /\ df = NoTable
    /\ cow = FALSE
    /\ result = NoResult
    /\ executed = <<>>
    /\ con = <<>>
    /\ sessions = <<>>

\* axes and every drill spec, no other modifier
InitDrill ==
    /\ pc = "args"
    /\ \E p \in AxisPairs(MaxDims), d \in DrillInfos :
          req = Request(p[1], p[2], <<DefaultMeasure>>, <<>>, d, NoSort, NoTopN,
                        NoShowHide, NoAggregation)
    /\ built = NoBuilt
    /\ payload = NoPayload
    /\ endpoint = "none"
    /\ response = NoResponse
    /\ df = NoTable
    /\ cow = FALSE
    /\ result = NoResult
    /\ executed = <<>>
    /\ con = <<>>
    /\ sessions = <<>>

\* axes and measures with no modifier: the base case
InitBase ==
    /\ pc = "args"
    /\ \E p \in AxisPairs(MaxDims), m \in SeqsUpTo(MeasureNames, MaxMeasures) :
          req = Request(p[1], p[2], m, <<>>, NoDrill, NoSort, NoTopN, NoShowHide,
                        NoAggregation)
    /\ built = NoBuilt
    /\ payload = NoPayload
    /\ endpoint = "none"
    /\ response = NoResponse
    /\ df = NoTable
    /\ cow = FALSE
    /\ result = NoResult
    /\ executed = <<>>
    /\ con = <<>>
    /\ sessions = <<>>

\* filters and the aggregation hint on a fixed row axis
InitWhere ==
    /\ pc = "args"
    /\ \E f \in SeqsUpTo(Filters, MaxFilters), a \in Aggregations :
          req = Request(<<StoreRef>>, <<>>, <<DefaultMeasure>>, f, NoDrill, NoSort,
                        NoTopN, NoShowHide, a)
    /\ built = NoBuilt
    /\ payload = NoPayload
    /\ endpoint = "none"
    /\ response = NoResponse
    /\ df = NoTable
    /\ cow = FALSE
    /\ result = NoResult
    /\ executed = <<>>
    /\ con = <<>>
    /\ sessions = <<>>

Build ==
    /\ pc = "args"
    /\ built' = BuildMdxQuery(req)
    /\ pc' = "built"
    /\ UNCHANGED <<req, payload, endpoint, response, df, cow, result, executed, con, sessions>>

NextBuild == Build

SpecAxis == InitAxis /\ [][NextBuild]_vars
SpecDrill == InitDrill /\ [][NextBuild]_vars
SpecBase == InitBase /\ [][NextBuild]_vars
SpecWhere == InitWhere /\ [][NextBuild]_vars

----------------------------------------------------------------------------
(* The normalizer applied to a raw table *)

InitNorm ==
    /\ pc = "fetched"
    /\ \E t \in RawTables(MaxRows) : df = t
    /\ cow \in BOOLEAN
    /\ result = NoResult
    /\ executed = <<>>
    /\ con = <<>>
    /\ sessions = <<>>
    /\ req = NoRequest
    /\ built = NoBuilt
    /\ payload = NoPayload
    /\ endpoint = "none"
    /\ response = NoResponse

\* lines 154-183 on the fetched rows
NormalizeFetched ==
    /\ pc = "fetched"
    /\ result' = Normalize(df.columns, df.rows, cow)
    /\ pc' = "normalized"
    /\ UNCHANGED <<req, built, payload, endpoint, response, df, cow, executed, con, sessions>>

\* the same steps on the table they returned
NormalizeAgain ==
    /\ pc = "normalized"
    /\ result.kind = "rows"
    /\ result' = Normalize(result.columns, result.rows, cow)
    /\ pc' = "again"
    /\ UNCHANGED <<req, built, payload, endpoint, response, df, cow, executed, con, sessions>>

NextNorm == NormalizeFetched \/ NormalizeAgain

SpecNorm == InitNorm /\ [][NextNorm]_vars

----------------------------------------------------------------------------
(* Endpoints: the whole handler, from the JSON body to the JSON response *)

\* a row or column entry of the JSON body given as a string, split at '.'
StrEntry(parts) ==
    [isdict |-> FALSE, dimension |-> None, level |-> None, member |-> None,
     parts |-> parts]
DictEntry(ref) ==
    [isdict |-> TRUE, dimension |-> ref.dimension, level |-> ref.level,
     member |-> ref.member, parts |-> <<>>]

\* "Convert simple dimension strings to proper objects if needed"
ConvertEntry(e) ==
    IF e.isdict
    THEN [isdict |-> TRUE, dimension |-> e.dimension, level |-> e.level,
          member |-> e.member]
    ELSE IF Len(e.parts) >= 2
    THEN [isdict |-> TRUE, dimension |-> e.parts[1], level |-> e.parts[2],
          member |-> IF Len(e.parts) >= 3 THEN e.parts[3] ELSE None]
    ELSE NotDict

ConvertEntries(es) == [i \in 1..Len(es) |-> ConvertEntry(es[i])]

\* request_data.get('measures', default)
MeasuresOrDefault(m, default) == IF m.given THEN m.list ELSE default

PayloadMeasures ==
    {[given |-> FALSE, list |-> <<>>]} \cup
    {[given |-> TRUE, list |-> l] : l \in SeqsUpTo(MeasureNames, MaxMeasures)}

EqualsYear ==
    [dimension |-> "Dim Time", level |-> "Year", type |-> "equals", value |-> "2023",
     min_value |-> None, max_value |-> None]

QueryPayloads ==
    {[given |-> TRUE, rows |-> r, columns |-> c, measures |-> m, filters |-> f] :
        r \in {<<>>, <<DictEntry(StoreRef)>>, <<StrEntry(<<"Dim Store", "City ID">>)>>,
               <<StrEntry(<<"Dim Store", "City ID", "5">>)>>, <<StrEntry(<<"Dim Store">>)>>},
        c \in {<<>>, <<DictEntry(TimeRef)>>},
        m \in PayloadMeasures,
        f \in {<<>>, <<EqualsYear>>}}

TimeSeriesPayloads ==
    {[given |-> TRUE, dimension |-> d, dimension_level |-> l, time_level |-> t,
      year_from |-> yf, year_to |-> yt, measures |-> m] :
        d \in {None, "Dim Store"}, l \in {None, "Store ID"}, t \in {None, "Year"},
        yf \in {None, "2022"}, yt \in {None, "2023"},
        m \in {x \in PayloadMeasures : Len(x.list) <= 1}}

\* /api/drill: the JSON body; type is None when the key is absent
DrillPayloads ==
    {[given |-> TRUE, dimension |-> d, currentLevel |-> c, targetLevel |-> t,
      memberValue |-> m, type |-> ty, measures |-> [given |-> FALSE, list |-> <<>>]] :
        d \in {None, "Dim Store"}, c \in {None, "City ID"}, t \in {None, "Store ID"},
        m \in {None, "5"}, ty \in {None, "down", "up", "through"}}

\* /api/show_hide: the JSON body; type is None when the key is absent
ShowHidePayloads ==
    {[given |-> TRUE, dimension |-> d, level |-> l, members |-> ms, type |-> ty] :
        d \in {None, "Dim Store"}, l \in {None, "City ID"}, ms \in VisibleLists,
        ty \in {None, "rows", "columns", "all"}}

\* /api/members: the query string
MembersPayloads ==
    {[given |-> TRUE, dimension |-> d, level |-> l] :
        d \in {None, "Dim Item", "Dim Store"}, l \in {None, "Item ID"}}

\* /api/data: the query string
DataPayloads == {[given |-> TRUE, return_total_only |-> t] : t \in BOOLEAN}

\* what the engine does with one query: it fails, or it returns a table
EngineTables ==
    {[columns |-> <<MeasureCol, CaptionCol1>>, rows |-> <<>>],
     [columns |-> <<MeasureCol, CaptionCol1>>,
      rows |-> <<(MeasureCol :> None @@ CaptionCol1 :> None),
                 (MeasureCol :> "120" @@ CaptionCol1 :> "Unknown")>>],
     [columns |-> <<MeasureCol, CaptionCol1>>,
      rows |-> <<(MeasureCol :> "120" @@ CaptionCol1 :> "A")>>]}

EngineOutcomes == {[ok |-> FALSE, table |-> NoTable]}
                  \cup {[ok |-> TRUE, table |-> t] : t \in EngineTables}

\* the value None handed over where a query text is expected
NoneQuery == <<None>>

\* the engine cannot run None as a command
OutcomesOf(mdx_query) ==
    IF mdx_query = NoneQuery THEN {o \in EngineOutcomes : ~o.ok} ELSE EngineOutcomes

\* execute_mdx: an exception of the session or of the normalizer is caught
\* and returned as {"error": ...}
ExecuteMdx(outcome, copy_on_write) ==
    IF outcome.ok
    THEN Normalize(outcome.table.columns, outcome.table.rows, copy_on_write)
    ELSE [kind |-> "error", df |-> DataFrame(<<>>, <<>>), columns |-> <<>>,
          rows |-> <<>>]

\* one call of execute_mdx as the handlers see it
Call(mdx_query, outcome) == [mdx |-> mdx_query, ok |-> outcome.ok]

ErrorResponse(msg) ==
    [given |-> TRUE, keys |-> {"error"}, error |-> msg, data |-> NoResult,
     mdx |-> NoText]
DataResponse(data, mdx) ==
    [given |-> TRUE, keys |-> {"data", "mdx"}, error |-> None, data |-> data,
     mdx |-> mdx]
\* jsonify({"members": members, "mdx": mdx_query})
MembersResponse(members, mdx) ==
    [given |-> TRUE, keys |-> {"members", "mdx"}, error |-> None, data |-> NoResult,
     mdx |-> mdx, members |-> members]
\* jsonify({"totals": totals, "mdx": mdx_query})
TotalsResponse(totals, mdx) ==
    [given |-> TRUE, keys |-> {"totals", "mdx"}, error |-> None, data |-> NoResult,
     mdx |-> mdx, totals |-> totals]
\* jsonify(data): the error object, or the bare list of rows
BareResponse(data) ==
    IF data.kind = "error" THEN ErrorResponse("execute_mdx")
    ELSE [given |-> TRUE, keys |-> {}, error |-> None, data |-> data, mdx |-> NoText]

\* the arguments execute_query hands to build_mdx_query
QueryArgs(p) ==
    Request(ConvertEntries(p.rows), ConvertEntries(p.columns),
            MeasuresOrDefault(p.measures, <<"Total Item Price">>), p.filters,
            NoDrill, NoSort, NoTopN, NoShowHide, NoAggregation)

\* the arguments time_series_comparison hands to build_mdx_query
TimeSeriesArgs(p) ==
    LET time_level == IF p.time_level = None THEN "Month" ELSE p.time_level
        filters == IF Truthy(p.year_from) /\ Truthy(p.year_to)
                   THEN <<[dimension |-> "Dim Time", level |-> "Year",
                           type |-> "between", value |-> None,
                           min_value |-> p.year_from, max_value |-> p.year_to]>>
                   ELSE <<>>
    IN  Request(<<[isdict |-> TRUE, dimension |-> p.dimension,
                   level |-> p.dimension_level, member |-> None]>>,
                <<[isdict |-> TRUE, dimension |-> "Dim Time", level |-> time_level,
                   member |-> None]>>,
                MeasuresOrDefault(p.measures, <<"Quantity Sale", "Total Item Price">>),
                filters, NoDrill, NoSort, NoTopN, NoShowHide, NoAggregation)

\* the arguments drill_operation hands to build_mdx_query
DrillArgs(p) ==
    Request(<<[isdict |-> TRUE, dimension |-> p.dimension, level |-> p.targetLevel,
               member |-> None]>>,
            <<>>, MeasuresOrDefault(p.measures, <<"Total Item Price">>), <<>>,
            [given |-> TRUE, dimension |-> p.dimension, member |-> p.memberValue,
             type |-> IF p.type = None THEN "down" ELSE p.type],
            NoSort, NoTopN, NoShowHide, NoAggregation)

\* the arguments show_hide hands to build_mdx_query
ShowHideArgs(p) ==
    LET type == IF p.type = None THEN "rows" ELSE p.type
        ref == [isdict |-> TRUE, dimension |-> p.dimension, level |-> p.level,
                member |-> None]
    IN  Request(IF type = "rows" THEN <<ref>> ELSE <<>>,
                IF type = "columns" THEN <<ref>> ELSE <<>>,
                <<"Total Item Price">>, <<>>, NoDrill, NoSort, NoTopN,
                [given |-> TRUE, type |-> type, members |-> p.members],
                NoAggregation)

\* the query text of get_data
DataQuery ==
    <<"SELECT ", "{", "[Measures].[", "Total Item Price", "]", "}", " ON COLUMNS, ",
      "NON EMPTY ", "[", "Dim Item", "].[", "Item ID", "].MEMBERS",
      " ON ROWS FROM [DW]">>

\* the query text of get_dimension_members
MembersQuery(dimension, level) ==
    <<"SELECT ", "{", "[Measures].[", "Total Item Price", "]", "}", " ON COLUMNS, ",
      "NON EMPTY ", "{">> \o MembersExpr(dimension, level) \o <<"}", " ON ROWS FROM [DW]">>

\* f'[{dimension}].[{level}].[MEMBER_CAPTION]' as a column identifier
CaptionColumn(dimension, level) ==
    IF dimension = "Dim Item" /\ level = "Item ID" THEN CaptionCol1
    ELSE IF dimension = "Dim Store" /\ level = "City ID" THEN CaptionCol2
    ELSE "[?].[?].[MEMBER_CAPTION]"

\* the loop "for row in result" of get_dimension_members: over the rows of a
\* table, or over the keys of the error object, none of which is a row
ExtractMembers(res, col) ==
    IF res.kind = "error" THEN <<>>
    ELSE LET has == SelectSeq(res.rows,
                        LAMBDA row : col \in DOMAIN row /\ row[col] # None)
         IN  [i \in 1..Len(has) |-> has[i][col]]

\* the totals object of get_data; data[0] of the error object raises KeyError
Totals(data) ==
    IF data.kind = "error" THEN [raise |-> TRUE, totals |-> <<>>]
    ELSE IF Len(data.rows) = 0 THEN [raise |-> FALSE, totals |-> <<>>]
    ELSE IF MeasureCol \in DOMAIN data.rows[1]
    THEN [raise |-> FALSE,
          totals |-> <<<<"Total Item Price", data.rows[1][MeasureCol]>>>>]
    ELSE [raise |-> FALSE, totals |-> <<<<"Total Item Price", "0">>>>]

Init ==
    /\ pc = "request"
    /\ \/ endpoint = "query" /\ payload \in QueryPayloads
       \/ endpoint = "time_series_comparison" /\ payload \in TimeSeriesPayloads
       \/ endpoint = "drill" /\ payload \in DrillPayloads
       \/ endpoint = "show_hide" /\ payload \in ShowHidePayloads
       \/ endpoint = "members" /\ payload \in MembersPayloads
       \/ endpoint = "data" /\ payload \in DataPayloads
    /\ cow \in BOOLEAN
    /\ req = NoRequest
    /\ built = NoBuilt
    /\ response = NoResponse
    /\ df = NoTable
    /\ result = NoResult
    /\ executed = <<>>
    /\ con = <<>>
    /\ sessions = <<>>

\* /api/query
ExecuteQuery ==
    /\ pc = "request"
    /\ endpoint = "query"
    /\ \E b \in {BuildMdxQuery(QueryArgs(payload))} :
           /\ req' = QueryArgs(payload)
           /\ built' = b
           /\ IF b.kind = "raise"
              THEN /\ response' = ErrorResponse("exception")
                   /\ UNCHANGED <<df, result, executed>>
              ELSE IF b.kind = "none"
              THEN /\ response' = ErrorResponse("Invalid query parameters")
                   /\ UNCHANGED <<df, result, executed>>
              ELSE \E outcome \in OutcomesOf(b.mdx) :
                      /\ executed' = <<Call(b.mdx, outcome)>>
                      /\ df' = outcome.table
                      /\ result' = ExecuteMdx(outcome, cow)
                      /\ response' = DataResponse(result', b.mdx)
    /\ pc' = "responded"
    /\ UNCHANGED <<payload, endpoint, cow, con, sessions>>

\* /api/time_series_comparison
TimeSeriesComparison ==
    /\ pc = "request"
    /\ endpoint = "time_series_comparison"
    /\ IF ~Truthy(payload.dimension) \/ ~Truthy(payload.dimension_level)
       THEN /\ response' = ErrorResponse("Dimension and dimension level are required")
            /\ UNCHANGED <<req, built, df, result, executed>>
       ELSE \E b \in {BuildMdxQuery(TimeSeriesArgs(payload))} :
                /\ req' = TimeSeriesArgs(payload)
                /\ built' = b
                /\ IF b.kind = "raise"
                   THEN /\ response' = ErrorResponse("exception")
                        /\ UNCHANGED <<df, result, executed>>
                   ELSE \E outcome \in OutcomesOf(b.mdx) :
                           /\ executed' = <<Call(b.mdx, outcome)>>
                           /\ df' = outcome.table
                           /\ result' = ExecuteMdx(outcome, cow)
                           /\ response' = DataResponse(result', b.mdx)
    /\ pc' = "responded"
    /\ UNCHANGED <<payload, endpoint, cow, con, sessions>>

\* the tail shared by drill_operation and show_hide: the result of
\* build_mdx_query goes to execute_mdx as it is, None included
ExecuteBuilt(args) ==
    \E b \in {BuildMdxQuery(args)} :
        /\ req' = args
        /\ built' = b
        /\ IF b.kind = "raise"
           THEN /\ response' = ErrorResponse("exception")
                /\ UNCHANGED <<df, result, executed>>
           ELSE \E mdx_query \in {IF b.kind = "none" THEN NoneQuery ELSE b.mdx},
                   outcome \in EngineOutcomes :
                   /\ outcome \in OutcomesOf(mdx_query)
                   /\ executed' = <<Call(mdx_query, outcome)>>
                   /\ df' = outcome.table
                   /\ result' = ExecuteMdx(outcome, cow)
                   /\ response' = DataResponse(result', mdx_query)

\* /api/drill
DrillOperation ==
    /\ pc = "request"
    /\ endpoint = "drill"
    /\ IF ~Truthy(payload.dimension) \/ ~Truthy(payload.currentLevel)
          \/ ~Truthy(payload.targetLevel)
       THEN /\ response' = ErrorResponse("Missing required parameters")
            /\ UNCHANGED <<req, built, df, result, executed>>
       ELSE ExecuteBuilt(DrillArgs(payload))
    /\ pc' = "responded"
    /\ UNCHANGED <<payload, endpoint, cow, con, sessions>>

\* /api/show_hide
ShowHide ==
    /\ pc = "request"
    /\ endpoint = "show_hide"
    /\ IF ~Truthy(payload.dimension) \/ ~Truthy(payload.level)
          \/ Len(payload.members) = 0
       THEN /\ response' = ErrorResponse("Missing required parameters")
            /\ UNCHANGED <<req, built, df, result, executed>>
       ELSE ExecuteBuilt(ShowHideArgs(payload))
    /\ pc' = "responded"
    /\ UNCHANGED <<payload, endpoint, cow, con, sessions>>

\* /api/members
GetDimensionMembers ==
    /\ pc = "request"
    /\ endpoint = "members"
    /\ IF ~Truthy(payload.dimension) \/ ~Truthy(payload.level)
       THEN /\ response' = ErrorResponse("Missing dimension or level parameter")
            /\ UNCHANGED <<df, result, executed>>
       ELSE \E mdx_query \in {MembersQuery(payload.dimension, payload.level)},
               col \in {CaptionColumn(payload.dimension, payload.level)},
               outcome \in EngineOutcomes :
                   /\ outcome \in OutcomesOf(mdx_query)
                   /\ executed' = <<Call(mdx_query, outcome)>>
                   /\ df' = outcome.table
                   /\ result' = ExecuteMdx(outcome, cow)
                   /\ response' = MembersResponse(ExtractMembers(result', col), mdx_query)
    /\ pc' = "responded"
    /\ UNCHANGED <<req, built, payload, endpoint, cow, con, sessions>>

\* /api/data
GetData ==
    /\ pc = "request"
    /\ endpoint = "data"
    /\ \E outcome \in OutcomesOf(DataQuery) :
          /\ executed' = <<Call(DataQuery, outcome)>>
          /\ df' = outcome.table
          /\ result' = ExecuteMdx(outcome, cow)
          /\ response' =
                IF payload.return_total_only
                THEN IF Totals(result').raise THEN ErrorResponse("0")
                     ELSE TotalsResponse(Totals(result').totals, DataQuery)
                ELSE BareResponse(result')
    /\ pc' = "responded"
    /\ UNCHANGED <<req, built, payload, endpoint, cow, con, sessions>>

Next ==
    \/ ExecuteQuery
    \/ TimeSeriesComparison
    \/ DrillOperation
    \/ ShowHide
    \/ GetDimensionMembers
    \/ GetData

Spec == Init /\ [][Next]_vars

----------------------------------------------------------------------------
(* execute_mdx step by step, several calls at a time: the session of the   *)
(* with statement of line 148 from its opening to the return of the call   *)

Calls == 1..MaxCalls

NoSession == 0

\* "with Pyadomd(connection_string) as con": a new session, owned by the call
Enter(ss, c) == Append(ss, [owner |-> c, open |-> TRUE, users |-> {}])

\* con.cursor().execute(...) and cur.fetchall() go through the call's con
Use(ss, id, c) == [ss EXCEPT ![id].users = @ \cup {c}]

\* the session left open when the with statement is left
ExitKeep(ss, id) == ss

\* leaving the with statement, by return or by exception, closes the session
Exit(ss, id) == [ss EXCEPT ![id].open = FALSE]

ErrorResult ==
    [kind |-> "error", df |-> DataFrame(<<>>, <<>>), columns |-> <<>>, rows |-> <<>>]

InitSession ==
    /\ pc = [c \in Calls |-> "called"]
    /\ con = [c \in Calls |-> NoSession]
    /\ sessions = <<>>
    /\ df = [c \in Calls |-> NoTable]
    /\ result = [c \in Calls |-> NoResult]
    /\ cow \in BOOLEAN
    /\ req = NoRequest
    /\ built = NoBuilt
    /\ payload = NoPayload
    /\ endpoint = "none"
    /\ response = NoResponse
    /\ executed = <<>>

\* line 148: the session is opened, or opening it raises
Open(c) ==
    /\ pc[c] = "called"
    /\ \/ /\ sessions' = Enter(sessions, c)
          /\ con' = [con EXCEPT ![c] = Len(sessions) + 1]
          /\ pc' = [pc EXCEPT ![c] = "opened"]
       \/ /\ pc' = [pc EXCEPT ![c] = "unwound"]
          /\ UNCHANGED <<con, sessions>>
    /\ UNCHANGED <<req, built, payload, endpoint, response, df, cow, result, executed>>

\* line 149: the query runs on the call's session, or raises
Execute(c) ==
    /\ pc[c] = "opened"
    /\ sessions' = Use(sessions, con[c], c)
    /\ \E to \in {"executed", "raised"} : pc' = [pc EXCEPT ![c] = to]
    /\ UNCHANGED <<req, built, payload, endpoint, response, df, cow, result, executed, con>>

\* lines 150-154: the rows are fetched into the DataFrame, or fetching raises
Fetch(c) ==
    /\ pc[c] = "executed"
    /\ sessions' = Use(sessions, con[c], c)
    /\ \/ \E t \in EngineTables :
             /\ df' = [df EXCEPT ![c] = t]
             /\ pc' = [pc EXCEPT ![c] = "fetched"]
       \/ /\ pc' = [pc EXCEPT ![c] = "raised"]
          /\ UNCHANGED df
    /\ UNCHANGED <<req, built, payload, endpoint, response, cow, result, executed, con>>

\* lines 159-182: the normalizer, which may raise
NormalizeRows(c) ==
    /\ pc[c] = "fetched"
    /\ \E r \in {Normalize(df[c].columns, df[c].rows, cow)} :
          /\ result' = [result EXCEPT ![c] = r]
          /\ pc' = [pc EXCEPT ![c] = IF r.kind = "error" THEN "raised" ELSE "returning"]
    /\ UNCHANGED <<req, built, payload, endpoint, response, df, cow, executed, con, sessions>>

\* the with statement is left, by the return of line 183 or by an exception
ExitWith(c) ==
    /\ pc[c] \in {"returning", "raised"}
    /\ sessions' = Exit(sessions, con[c])
    /\ pc' = [pc EXCEPT ![c] = IF pc[c] = "returning" THEN "left" ELSE "unwound"]
    /\ UNCHANGED <<req, built, payload, endpoint, response, df, cow, result, executed, con>>

\* line 183: the rows are returned
Return(c) ==
    /\ pc[c] = "left"
    /\ pc' = [pc EXCEPT ![c] = "returned"]
    /\ UNCHANGED <<req, built, payload, endpoint, response, df, cow, result, executed, con, sessions>>

\* lines 184-186: the exception is caught and {"error": ...} returned
Except(c) ==
    /\ pc[c] = "unwound"
    /\ result' = [result EXCEPT ![c] = ErrorResult]
    /\ pc' = [pc EXCEPT ![c] = "returned"]
    /\ UNCHANGED <<req, built, payload, endpoint, response, df, cow, executed, con, sessions>>

NextSession ==
    \E c \in Calls :
        \/ Open(c)
        \/ Execute(c)
        \/ Fetch(c)
        \/ NormalizeRows(c)
        \/ ExitWith(c)
        \/ Return(c)
        \/ Except(c)

SpecSession == InitSession /\ [][NextSession]_vars

----------------------------------------------------------------------------
(* Properties *)

Positions(text, tok) == {i \in 1..Len(text) : text[i] = tok}

\* the set an axis member list denotes: the member, or the crossjoin, in braces
AxisSet(members) ==
    IF Len(members) = 1 THEN <<"{">> \o members[1] \o <<"}">>
    ELSE <<"{", "CROSSJOIN(">> \o Join(members, ", ") \o <<")", "}">>

SortApplies == req.sort_info.given /\ Truthy(req.sort_info.measure)

\* C1: with a non-empty row axis and a sort spec that names a measure, the
\* row expression has one ORDER, the NON EMPTY filter stands directly before
\* it, and the first argument of ORDER is the axis set with no NON EMPTY
\* filter in it
C1_SortThenFilter ==
    (pc = "built" /\ built.kind = "text" /\ Len(req.rows) > 0 /\ SortApplies) =>
        LET rs == built.rows_str
            axis == AxisSet(built.row_members)
        IN  /\ Cardinality(Positions(rs, "ORDER(")) = 1
            /\ \A i \in Positions(rs, "ORDER(") :
                  /\ i > 1 /\ rs[i - 1] = "NON EMPTY "
                  /\ i + Len(axis) + 1 <= Len(rs)
                  /\ SubSeq(rs, i + 1, i + Len(axis)) = axis
                  /\ rs[i + Len(axis) + 1] = ", "
                  /\ \A j \in Positions(rs, "NON EMPTY ") : j < i

C1_Witness ==
    /\ pc = "built" /\ built.kind = "text" /\ SortApplies
    /\ Len(built.row_members) = 2
    /\ req.top_n.given /\ Truthy(req.top_n.measure)
    /\ Positions(built.rows_str, "ORDER(") # {}

HasRef(dims) == \E i \in 1..Len(dims) : dims[i].isdict

\* the last dimension reference of an axis list
LastRef(dims) ==
    dims[CHOOSE i \in 1..Len(dims) :
            dims[i].isdict /\ \A j \in (i + 1)..Len(dims) : ~dims[j].isdict]

\* the visibility members as pinned members of the axis' last reference
VisList(dims, show_hide) ==
    [i \in 1..Len(show_hide.members) |->
        PinnedExpr(LastRef(dims).dimension, LastRef(dims).level, show_hide.members[i])]

\* tokens that only a drill or full-member-set expression contains
ResolvedOnly == {"].MEMBERS", ".CHILDREN", ".PARENT"}

NoResolvedToken(text) == \A i \in 1..Len(text) : text[i] \notin ResolvedOnly

VisibilityReplaces(dims, members, text) ==
    HasRef(dims) => (members = VisList(dims, req.show_hide) /\ NoResolvedToken(text))

\* C7 as stated: a visibility spec on an axis with dimension references
\* leaves the visibility member list only, for every member list
C7_AsStated ==
    (pc = "built" /\ built.kind = "text" /\ req.show_hide.given) =>
        /\ req.show_hide.type = "rows" =>
              VisibilityReplaces(req.rows, built.row_members, built.rows_str)
        /\ req.show_hide.type = "columns" =>
              VisibilityReplaces(req.cols, built.col_members, built.cols_str)

\* C7: a visibility spec with a non-empty member list on an axis with
\* dimension references leaves the visibility member list only: the axis
\* members are the listed members and no drill or full-member-set expression
\* is in the axis text
C7_VisibilityReplaces ==
    (pc = "built" /\ built.kind = "text" /\ req.show_hide.given
     /\ Len(req.show_hide.members) > 0) =>
        /\ req.show_hide.type = "rows" =>
              VisibilityReplaces(req.rows, built.row_members, built.rows_str)
        /\ req.show_hide.type = "columns" =>
              VisibilityReplaces(req.cols, built.col_members, built.cols_str)

C7_Witness ==
    /\ pc = "built" /\ built.kind = "text"
    /\ req.show_hide.given /\ req.show_hide.type = "rows"
    /\ Len(req.show_hide.members) = 2
    /\ req.drill_info.given /\ req.drill_info.type = "down"
    /\ req.drill_info.member = "5"
    /\ req.rows = <<StoreRef>>
    /\ built.row_members = <<PinnedExpr("Dim Store", "City ID", "5"),
                             PinnedExpr("Dim Store", "City ID", "8")>>

RowsReplaced ==
    req.show_hide.given /\ req.show_hide.type = "rows" /\ Len(req.show_hide.members) > 0

\* C8 as stated: the row axis is wrapped in NON EMPTY except when a
\* visibility list replaced it
C8_AsStated ==
    (pc = "built" /\ built.kind = "text" /\ Len(req.rows) > 0) =>
        (Positions(built.rows_str, "NON EMPTY ") = {} <=> RowsReplaced)

\* C8: with row dimensions the row axis is wrapped in NON EMPTY in every
\* case, also when a visibility list replaced it: the row text has one
\* NON EMPTY, leading it or directly inside TOPCOUNT
C8_RowsAlwaysFiltered ==
    (pc = "built" /\ built.kind = "text" /\ Len(req.rows) > 0) =>
        /\ Cardinality(Positions(built.rows_str, "NON EMPTY ")) = 1
        /\ \A i \in Positions(built.rows_str, "NON EMPTY ") :
              i = 1 \/ (i = 2 /\ built.rows_str[1] = "TOPCOUNT(")

C8_Witness ==
    /\ pc = "built" /\ built.kind = "text" /\ Len(req.rows) > 0 /\ RowsReplaced
    /\ ~req.sort_info.given /\ ~req.top_n.given
    /\ Len(req.show_hide.members) = 1
    /\ built.rows_str[1] = "NON EMPTY "

\* the expression a reference resolves to when no drill spec is present
BaseExpr(dim) ==
    IF dim.member # None THEN PinnedExpr(dim.dimension, dim.level, dim.member)
    ELSE MembersExpr(dim.dimension, dim.level)

Refs(dims) == SelectSeq(dims, LAMBDA d : d.isdict)

\* C9 as stated: in the base case the column axis never carries NON EMPTY
C9_AsStated ==
    (pc = "built" /\ built.kind = "text") =>
        /\ Positions(built.cols_str, "NON EMPTY ") = {}
        /\ HasRef(req.cols) => Positions(built.cols_str, "CROSSJOIN(") # {}
        /\ ~HasRef(req.cols) => built.cols_str = MeasuresSet(req.measures)

\* C9: in the base case, without column dimensions the column axis is the
\* measure set alone, unfiltered; with column dimensions it is NON EMPTY
\* around the crossjoin of the measure set with the resolved column
\* expression
C9_ColumnAxis ==
    (pc = "built" /\ built.kind = "text") =>
        LET ms == MeasuresSet(req.measures)
            refs == Refs(req.cols)
            resolved == [i \in 1..Len(refs) |-> BaseExpr(refs[i])]
            colx == IF Len(resolved) = 1 THEN resolved[1]
                    ELSE <<"CROSSJOIN(">> \o Join(resolved, ", ") \o <<")">>
        IN  /\ HasRef(req.cols) =>
                  built.cols_str = <<"NON EMPTY ", "CROSSJOIN(">> \o ms \o <<", ">>
                                   \o colx \o <<")">>
            /\ ~HasRef(req.cols) => built.cols_str = ms

C9_Witness ==
    /\ pc = "built" /\ built.kind = "text"
    /\ req.cols = <<TimeRef, StorePinned>>
    /\ Len(req.measures) = 2
    /\ built.cols_str[1] = "NON EMPTY "

IncompleteBetween(f) ==
    f.type = "between" /\ (f.min_value = None \/ f.max_value = None)

Complete(filters) == SelectSeq(filters, LAMBDA f : ~IncompleteBetween(f))

ValidFilter(f) ==
    /\ Truthy(f.dimension) /\ Truthy(f.level)
    /\ f.type \in FilterTypes
    /\ IF f.type = "between"
       THEN f.min_value # None /\ f.max_value # None /\ f.value = None
       ELSE f.value # None

Has(text, tok) == \E i \in 1..Len(text) : text[i] = tok

\* the predicate shape documented for the filter's type
DocumentedShape(f, frag) ==
    CASE f.type = "equals" -> frag = PinnedExpr(f.dimension, f.level, f.value)
      [] f.type = "contains" -> Has(frag, "FILTER(") /\ Has(frag, "CONTAINS(")
      [] f.type = "starts_with" -> Has(frag, "FILTER(") /\ Has(frag, "STARTSWITH(")
      [] f.type = "ends_with" -> Has(frag, "FILTER(") /\ Has(frag, "ENDSWITH(")
      [] f.type = "greater_than" -> Has(frag, "FILTER(") /\ Has(frag, " > ")
      [] f.type = "less_than" -> Has(frag, "FILTER(") /\ Has(frag, " < ")
      [] f.type = "between" ->
            /\ Has(frag, "FILTER(") /\ Has(frag, " >= ") /\ Has(frag, " <= ")
            /\ Has(frag, f.min_value) /\ Has(frag, f.max_value)
      [] OTHER -> FALSE

\* C6 as stated: every filter that meets the data-model invariant gives
\* exactly one fragment of its documented shape, in request order; a between
\* filter with both bounds and no value gives an inclusive-range restriction
C6_AsStated ==
    (pc = "built" /\ built.kind = "text"
     /\ \A i \in 1..Len(req.filters) : ValidFilter(req.filters[i])) =>
        /\ Len(built.filter_items) = Len(req.filters)
        /\ \A i \in 1..Len(req.filters) :
              i <= Len(built.filter_items)
              /\ DocumentedShape(req.filters[i], built.filter_items[i])

\* the measures a text references, in order
MeasureRefs(text) ==
    LET at == SelectSeq([i \in 1..Len(text) |-> i],
                        LAMBDA i : text[i] = "[Measures].[")
    IN  [k \in 1..Len(at) |-> text[at[k] + 1]]

\* C10 as stated: a request with an empty measure list compiles to a measure
\* set of exactly the default measure; a non-empty list is rendered in
\* request order
C10_AsStated ==
    (pc = "responded" /\ endpoint = "query" /\ built.kind = "text") =>
        MeasureRefs(built.cols_str) =
            IF ~payload.measures.given \/ payload.measures.list = <<>>
            THEN <<DefaultMeasure>>
            ELSE payload.measures.list

\* a raw row whose non-measure columns all hold the placeholder
Vacuous(columns, row) ==
    \A i \in 1..Len(columns) : ~IsMeasureCol(columns[i]) => row[columns[i]] = "Unknown"

HasDimensionCol(columns) == \E i \in 1..Len(columns) : ~IsMeasureCol(columns[i])

\* C2 as stated: from a raw table of more than one row, not all vacuous,
\* no vacuous row is in the normalized output
C2_AsStated ==
    (pc = "normalized" /\ result.kind = "rows" /\ Len(df.rows) > 1
     /\ HasDimensionCol(df.columns)
     /\ \E i \in 1..Len(df.rows) : ~Vacuous(df.columns, df.rows[i])) =>
        \A k \in 1..Len(result.df.rows) :
            ~Vacuous(df.columns, df.rows[result.df.rows[k].idx + 1])

\* C3: a raw table with at least one row normalizes to a table with at
\* least one row; a single row is kept, and when every row is vacuous no
\* row is dropped
C3_NeverEmpty ==
    (pc = "normalized" /\ Len(df.rows) >= 1) =>
        /\ result.kind = "rows"
        /\ Len(result.rows) >= 1
        /\ (Len(df.rows) = 1 \/ \A i \in 1..Len(df.rows) : Vacuous(df.columns, df.rows[i]))
              => Len(result.rows) = Len(df.rows)

C3_Witness ==
    /\ pc = "normalized"
    /\ df.columns = <<MeasureCol, CaptionCol1>>
    /\ Len(df.rows) = 1
    /\ df.rows[1][CaptionCol1] = "Unknown"
    /\ result.rows = <<(MeasureCol :> "120" @@ CaptionCol1 :> "Total")>>

\* C4: the normalizer applied to a table it returned returns the same
\* table: same columns, same rows, same order
C4_Idempotent ==
    [][(pc = "normalized" /\ pc' = "again") =>
          (result'.kind = "rows" /\ result'.columns = result.columns
           /\ result'.rows = result.rows)]_vars

C4_Witness ==
    /\ pc = "again" /\ result.kind = "rows" /\ ~cow
    /\ df.columns = <<MeasureCol, CaptionCol1>>
    /\ Len(df.rows) = 3
    /\ df.rows[1] = (MeasureCol :> None @@ CaptionCol1 :> None)
    /\ df.rows[2][CaptionCol1] = "Unknown"
    /\ Len(result.rows) = 3
    /\ result.rows[1] = (MeasureCol :> "0" @@ CaptionCol1 :> "Total")

\* C11 as stated: on every endpoint, when build_mdx_query was handed an
\* empty row list and an empty column list, the response is an error and
\* execute_mdx was not called
C11_AsStated ==
    (pc = "responded" /\ built.kind = "none" /\ Len(req.rows) = 0 /\ Len(req.cols) = 0) =>
        (response.keys = {"error"} /\ executed = <<>>)

\* C12 as stated: the row axis has a CROSSJOIN exactly when more than one
\* row reference resolves; two or more references are crossjoined once each
\* in request order, a single reference stands bare, whatever drill or
\* visibility spec is present
C12_AsStated ==
    (pc = "built" /\ built.kind = "text" /\ HasRef(req.rows)) =>
        LET n == Len(Refs(req.rows))
            members == built.row_members
        IN  /\ Has(built.rows_str, "CROSSJOIN(") <=> n > 1
            /\ Len(members) = n
            /\ n = 1 => built.rows_base = <<"NON EMPTY ", "{">> \o members[1] \o <<"}">>
            /\ n > 1 => built.rows_base =
                  <<"NON EMPTY ", "{", "CROSSJOIN(">> \o Join(members, ", ") \o <<")", "}">>

\* the resolution documented for a reference under a drill spec
DocumentedExpr(dim, drill_info) ==
    IF drill_info.given /\ drill_info.dimension = dim.dimension
    THEN IF drill_info.type = "down" /\ drill_info.member # None
         THEN ChildrenExpr(dim.dimension, dim.level, drill_info.member)
         ELSE IF drill_info.type = "up" /\ drill_info.member # None
         THEN ParentExpr(dim.dimension, dim.level, drill_info.member)
         ELSE MembersExpr(dim.dimension, dim.level)
    ELSE BaseExpr(dim)

Documented(dims, drill_info) ==
    [i \in 1..Len(Refs(dims)) |-> DocumentedExpr(Refs(dims)[i], drill_info)]

\* C13 as stated: every reference resolves as documented for the drill
\* spec: children of the drill member for down, its parent for up, the full
\* member set of the reference's level for through or a missing member, and
\* its own expression when the drill spec names another dimension
C13_AsStated ==
    (pc = "built" /\ built.kind = "text") =>
        /\ built.row_members = Documented(req.rows, req.drill_info)
        /\ built.col_members = Documented(req.cols, req.drill_info)

\* C20 as stated: a reference resolves to the same expression on the row
\* axis and on the column axis, for every drill spec, pinned member or not
C20_AsStated ==
    (pc = "built" /\ built.kind = "text" /\ req.rows = req.cols) =>
        built.row_members = built.col_members

HintApplies ==
    /\ req.aggregation_level.given
    /\ Truthy(req.aggregation_level.dimension) /\ Truthy(req.aggregation_level.level)

\* C14: with an aggregation hint that has dimension and level, the WHERE
\* clause is the hint's member set followed by the filter fragments of the
\* same request without the hint, unchanged and in the same order; with no
\* fragment it is the hint alone
C14_HintAugments ==
    (pc = "built" /\ built.kind = "text" /\ HintApplies) =>
        LET hint == MembersExpr(req.aggregation_level.dimension,
                                req.aggregation_level.level)
            plain == BuildMdxQuery([req EXCEPT !.aggregation_level = NoAggregation])
        IN  /\ built.filter_items = plain.filter_items
            /\ built.where_clause =
                  <<" WHERE (">> \o Join(<<hint>> \o plain.filter_items, ", ") \o <<")">>
            /\ plain.filter_items = <<>> =>
                  built.where_clause = <<" WHERE (">> \o hint \o <<")">>

C14_Witness ==
    /\ pc = "built" /\ built.kind = "text" /\ HintApplies
    /\ Len(built.filter_items) = 2
    /\ built.filter_items[1] # built.filter_items[2]
    /\ built.where_clause =
          <<" WHERE (">> \o MembersExpr("Dim Time", "Quarter") \o <<", ">>
          \o built.filter_items[1] \o <<", ">> \o built.filter_items[2] \o <<")">>

EngineFailed == \E i \in 1..Len(executed) : ~executed[i].ok

\* the response is an error object, or has the error object of execute_mdx
\* as its data
CarriesError ==
    \/ "error" \in response.keys
    \/ "data" \in response.keys /\ response.data.kind = "error"

\* C16 as stated: on every endpoint, when the engine fails the response
\* carries the failure as an error, never as a success with an empty table
\* or an empty member list
C16_AsStated ==
    (pc = "responded" /\ EngineFailed) => CarriesError

\* C17 as stated: on every endpoint, a response to a request for which a
\* query text was produced includes that text, whether execution succeeded
\* or failed
C17_AsStated ==
    (pc = "responded" /\ executed # <<>> /\ executed[1].mdx # NoneQuery) =>
        ("mdx" \in response.keys /\ response.mdx = executed[1].mdx)

\* the two-row table of the normalization scenario
ScenarioTable ==
    [columns |-> <<MeasureCol, CaptionCol1>>,
     rows |-> <<(MeasureCol :> None @@ CaptionCol1 :> None),
                (MeasureCol :> "120" @@ CaptionCol1 :> "Unknown")>>]

\* C18 as stated: when the first raw row has null in a caption column, the
\* first normalized row is that row with "Total" in the column; the scenario
\* table normalizes to (0, Total), (120, Total)
C18_AsStated ==
    (pc = "normalized" /\ Len(df.rows) >= 1) =>
        /\ \A i \in 1..Len(df.columns) :
              (IsCaptionCol(df.columns[i]) /\ df.rows[1][df.columns[i]] = None) =>
                  /\ result.kind = "rows"
                  /\ Len(result.rows) >= 1
                  /\ result.df.rows[1].idx = 0
                  /\ result.rows[1][df.columns[i]] = "Total"
        /\ df = ScenarioTable =>
              result.rows = <<(MeasureCol :> "0" @@ CaptionCol1 :> "Total"),
                              (MeasureCol :> "120" @@ CaptionCol1 :> "Total")>>

\* C19: a table returned by execute_mdx has the columns of the raw table in
\* their order; its rows are raw rows in their order; a measure cell is never
\* null, it is 0 for a raw null and the raw value otherwise; no other cell is
\* "Unknown"
C19_CleanTable ==
    (pc = "normalized" /\ result.kind = "rows") =>
        /\ result.columns = df.columns
        /\ Len(result.rows) = Len(result.df.rows)
        /\ \A j, k \in 1..Len(result.df.rows) :
              j < k => result.df.rows[j].idx < result.df.rows[k].idx
        /\ \A k \in 1..Len(result.rows) :
              /\ result.df.rows[k].idx + 1 \in 1..Len(df.rows)
              /\ \A i \in 1..Len(df.columns) :
                    LET col == df.columns[i]
                        raw == df.rows[result.df.rows[k].idx + 1][col]
                        val == result.rows[k][col]
                    IN  IF IsMeasureCol(col)
                        THEN val # None /\ val = (IF raw = None THEN "0" ELSE raw)
                        ELSE val # "Unknown" /\ (raw # "Unknown" /\ raw # None => val = raw)

C19_Witness ==
    /\ pc = "normalized" /\ result.kind = "rows"
    /\ df.columns = <<MeasureCol, CaptionCol1, CaptionCol2>>
    /\ Len(df.rows) = 3 /\ Len(result.rows) = 3
    /\ df.rows[2][MeasureCol] = None /\ result.rows[2][MeasureCol] = "0"
    /\ df.rows[3][MeasureCol] = "120" /\ result.rows[3][MeasureCol] = "120"
    /\ df.rows[2][CaptionCol1] = "Unknown" /\ result.rows[2][CaptionCol1] = "Total"
    /\ df.rows[3][CaptionCol2] = "B" /\ result.rows[3][CaptionCol2] = "B"

TopNApplies == req.top_n.given /\ Truthy(req.top_n.measure)

\* C21: with a non-empty row axis, a sort spec and a top-N spec that both
\* name a measure, the row expression is one TOPCOUNT, outermost, whose set
\* argument is the whole NON EMPTY ORDER(...) expression over the axis set;
\* no TOPCOUNT stands inside ORDER
C21_TopNOutermost ==
    (pc = "built" /\ built.kind = "text" /\ Len(req.rows) > 0
     /\ SortApplies /\ TopNApplies) =>
        LET rs == built.rows_str
            direction == IF req.sort_info.direction = None THEN "desc"
                         ELSE req.sort_info.direction
            sorted == <<"NON EMPTY ", "ORDER(">> \o AxisSet(built.row_members)
                      \o <<", ">> \o MeasureExpr(req.sort_info.measure)
                      \o <<", ", Upper(direction), ")">>
            n == IF req.top_n.has_n THEN req.top_n.n ELSE 10
        IN  /\ rs = <<"TOPCOUNT(">> \o sorted \o <<", ", Str(n), ", ">>
                    \o MeasureExpr(req.top_n.measure) \o <<")">>
            /\ Positions(rs, "TOPCOUNT(") = {1}
            /\ Positions(rs, "ORDER(") = {3}

C21_Witness ==
    /\ pc = "built" /\ built.kind = "text" /\ SortApplies /\ TopNApplies
    /\ req.rows = <<StoreRef, TimeRef>>
    /\ req.top_n.has_n /\ req.top_n.n = 3
    /\ req.sort_info.direction = None
    /\ built.rows_str[1] = "TOPCOUNT(" /\ built.rows_str[3] = "ORDER("
    /\ built.rows_str[Len(built.rows_str) - 8] = "DESC"

SessionsOf(c) == {id \in 1..Len(sessions) : sessions[id].owner = c}

\* C22: when a call of execute_mdx has returned, by any path, no session it
\* opened is open; a call opens one session at most; and a session is used
\* by the call that opened it only
C22_SessionScoped ==
    /\ \A c \in Calls :
          pc[c] = "returned" => \A id \in SessionsOf(c) : ~sessions[id].open
    /\ \A c \in Calls : Cardinality(SessionsOf(c)) <= 1
    /\ \A id \in 1..Len(sessions) : sessions[id].users \subseteq {sessions[id].owner}

C22_Witness ==
    /\ \A c \in Calls : pc[c] = "returned"
    /\ Len(sessions) = 2
    /\ sessions[1].owner = 2 /\ sessions[2].owner = 1
    /\ sessions[1].users = {2} /\ sessions[2].users = {1}
    /\ ~sessions[1].open /\ ~sessions[2].open
    /\ result[1].kind = "rows" /\ Len(result[1].rows) = 2
    /\ result[2].kind = "error" /\ df[2].columns # <<>> /\ df[2].rows = <<>>

\* C23 as stated: a raw table of zero rows, whatever its columns, is
\* returned by execute_mdx as an empty table and not as an error
C23_AsStated ==
    (pc = "normalized" /\ Len(df.rows) = 0) =>
        (result.kind = "rows" /\ result.rows = <<>>)

=============================================================================
